---- MODULE Spec2Model ----
(***************************************************************************)
(* rake-spacy: the RAKE keyword ranking engine (rake_spacy/rake2.py) with  *)
(* its strategy objects (stop_tokens.py, mappers.py, phrasers.py, cog.py,  *)
(* scorers.py, aggregators.py).                                            *)
(*                                                                         *)
(* Strings are sequences of character codes, so that str.lower() and the   *)
(* lexicographic order used by sorted() are computed, not assumed.  Scores *)
(* are exact rationals <<num, den>> in lowest terms (the code uses floats).*)
(* Dictionaries are functions; their DOMAIN is the set of keys.            *)
(***************************************************************************)
EXTENDS Integers, Sequences, FiniteSets, TLC

VARIABLES
    cfg,                 \* the attributes Rake.__init__ stores
    pc,                  \* position inside apply_to_doc
    doc,                 \* the Doc handed to the running / last call
    phrases,             \* the local variable `phrases` of apply_to_doc
    co_occurance_graph,  \* self.co_occurance_graph
    frequency_dist,      \* self.frequency_dist
    degree,              \* self.degree
    rank_list,           \* self.rank_list
    ranked_phrases,      \* self.ranked_phrases
    assigned,            \* the result attributes that have been assigned so far
    returned,            \* what each completed call returned to its caller, in call order
    probe,               \* a token whose stop-token classification was asked, with the answers
    phrase_scores        \* the local variable `scores` of generate_ranklist, as last built

vars == <<cfg, pc, doc, phrases, co_occurance_graph, frequency_dist, degree,
          rank_list, ranked_phrases, assigned, returned, probe, phrase_scores>>

----------------------------------------------------------------------------
(* Bounds of the model *)

\* the longest document handed to an engine with the contiguous-run phraser
MaxDocLen == 3

\* the longest document handed to an engine with the entity / noun-chunk phraser
MaxChunkDocLen == 2

\* the number of extraction calls made on one engine
MaxCalls == 2

\* the longest document whose tokens carry every combination of the four flags
MaxFlagDocLen == 3

\* the longest document handed to an engine with a phraser of its caller, and the
\* largest number of spans such a phraser produces
MaxInjectedDocLen == 1

MaxInjectedSpans == 2

\* the longest list of scores handed to an aggregator on its own
MaxScores == 3

----------------------------------------------------------------------------
(* With(e, F) is F(e) with e evaluated once: LET v == e IN F(v). *)

With(e, F(_)) == CHOOSE r \in {F(v) : v \in {e}} : TRUE

----------------------------------------------------------------------------
(* Strings *)

Space == <<32>>

LowerChar(c) == IF 65 <= c /\ c <= 90 THEN c + 32 ELSE c

Lower(s) == [k \in 1..Len(s) |-> LowerChar(s[k])]

\* Python's str comparison: lexicographic by code point, a proper prefix first.
RECURSIVE StrLess(_, _)
StrLess(s, t) ==
    IF t = <<>> THEN FALSE
    ELSE IF s = <<>> THEN TRUE
    ELSE IF Head(s) # Head(t) THEN Head(s) < Head(t)
    ELSE StrLess(Tail(s), Tail(t))

StrLeq(s, t) == s = t \/ StrLess(s, t)

----------------------------------------------------------------------------
(* Tokens, as the annotation pipeline hands them over *)

Lexeme(text, lemma, stop, space, punct, num) ==
    [text |-> text, lemma_ |-> lemma, is_stop |-> stop, is_space |-> space,
     is_punct |-> punct, like_num |-> num]

\* The lexemes the documents of the engine runs are made of:
\*   "a"  lemma "a"                a plain word
\*   "b"  lemma "A"                another form of it, its lemma capitalised
\*   "c"  lemma "a"  is_stop       a stop word whose lemma is the plain word
Lexicon ==
    { Lexeme(<<97>>, <<97>>, FALSE, FALSE, FALSE, FALSE),
      Lexeme(<<98>>, <<65>>, FALSE, FALSE, FALSE, FALSE),
      Lexeme(<<99>>, <<97>>, TRUE,  FALSE, FALSE, FALSE) }

\* Every combination of the four flags, on two different texts ("a" and "2").
FlagLexicon ==
    { Lexeme(t, t, s, w, p, n) :
        t \in {<<97>>, <<50>>},
        s \in BOOLEAN, w \in BOOLEAN, p \in BOOLEAN, n \in BOOLEAN }

\* doc[i] for a 0-based i: the lexeme's attributes, Token.i and len(Token.doc).
Tok(d, i) ==
    [isstr |-> FALSE, text |-> d.tokens[i + 1].text, lemma_ |-> d.tokens[i + 1].lemma_,
     is_stop |-> d.tokens[i + 1].is_stop, is_space |-> d.tokens[i + 1].is_space,
     is_punct |-> d.tokens[i + 1].is_punct, like_num |-> d.tokens[i + 1].like_num,
     i |-> i, doclen |-> Len(d.tokens)]

\* A str object, as opposed to a Token.
Str(s) == [isstr |-> TRUE, str |-> s]

\* A Span doc[start:end] is the pair of its bounds.
SpanOf(s, e) == [start |-> s, end |-> e]

SpanLen(p) == p.end - p.start

\* The tokens of a span, in order (iterating a Span).
SpanTokens(d, p) == [k \in 1..SpanLen(p) |-> Tok(d, p.start + k - 1)]

\* Span.text: the texts of the tokens, separated by one space.
RECURSIVE JoinText(_, _, _)
JoinText(d, s, e) ==
    IF s >= e THEN <<>>
    ELSE IF s + 1 = e THEN d.tokens[s + 1].text
    ELSE d.tokens[s + 1].text \o Space \o JoinText(d, s + 1, e)

SpanText(d, p) == JoinText(d, p.start, p.end)

----------------------------------------------------------------------------
(* stop_tokens.py *)

BasicStopTokenIndicator_LikeNumIgnored(token) ==
    token.is_stop \/ token.is_space \/ token.is_punct

BasicStopTokenIndicator(token) ==
    (token.is_stop \/ token.is_space \/ token.is_punct) /\ ~token.like_num

\* rake.Rake.to_ignore(t) of the older engine, with ignore_fn left at None
to_ignore(use_default_ignorables, t) ==
    IF use_default_ignorables
      THEN FALSE \/ ((t.is_stop \/ t.is_space \/ t.is_punct) /\ ~t.like_num)
      ELSE FALSE

----------------------------------------------------------------------------
(* mappers.py *)

LemmaMapper(token) == IF token.isstr THEN token.str ELSE token.lemma_

LemmaLowerMapper(token) == IF token.isstr THEN token.str ELSE Lower(token.lemma_)

\* (a str argument rendered with repr() instead of returned as it is)
TextMapper_ReprOfStr(token) ==
    IF token.isstr THEN <<39>> \o token.str \o <<39>> ELSE token.text

TextMapper(token) == IF token.isstr THEN token.str ELSE token.text

Mappers == {"LemmaMapper", "LemmaLowerMapper", "TextMapper"}

\* self.token_mapper_class(x)
token_mapper_class(m, x) ==
    CASE m = "LemmaMapper"      -> LemmaMapper(x)
      [] m = "LemmaLowerMapper" -> LemmaLowerMapper(x)
      [] m = "TextMapper"       -> TextMapper(x)

----------------------------------------------------------------------------
(* phrasers.py *)

\* self.stop_token_class(token): the engine's stop-token indicator
stop_token_class(token) == BasicStopTokenIndicator(token)

\* The key itertools.groupby groups by: lambda t: not stop_token_indicator_fn(t)
GroupKey(d, i) == ~stop_token_class(Tok(d, i))

\* The end (exclusive) of the group that starts at i with key k.
RECURSIVE GroupEnd(_, _, _)
GroupEnd(d, i, k) ==
    IF i < Len(d.tokens) /\ GroupKey(d, i) = k THEN GroupEnd(d, i + 1, k) ELSE i

\* itertools.groupby(doc, key): the consecutive groups <<k, g>> from token i on,
\* a group g given by its first and last token (g[0].i and g[-1].i).
RECURSIVE GroupBy(_, _)
GroupBy(d, i) ==
    IF i >= Len(d.tokens) THEN <<>>
    ELSE With(GroupKey(d, i), LAMBDA k :
         With(GroupEnd(d, i + 1, k), LAMBDA j :
              <<[k |-> k, first |-> i, last |-> j - 1]>> \o GroupBy(d, j)))

IsKept(g) == g.k

\* (a slice that stops at the last token of the group: doc[g[0].i : g[-1].i])
ContiguousNonStopTokenPhraser_EndExclusive(d) ==
    With(SelectSeq(GroupBy(d, 0), IsKept), LAMBDA groups :
         [x \in 1..Len(groups) |-> SpanOf(groups[x].first, groups[x].last)])

\* ContiguousNonStopTokenPhraser.__call__
ContiguousNonStopTokenPhraser(d) ==
    With(SelectSeq(GroupBy(d, 0), IsKept), LAMBDA groups :
         [x \in 1..Len(groups) |-> SpanOf(groups[x].first, groups[x].last + 1)])

\* EntityAndNounChunkPhraser.__call__: spacy.util.filter_spans(ents + noun_chunks)
\* is the pipeline's; its result is part of the document's annotation.
EntityAndNounChunkPhraser(d) == d.chunks

\* BasePhraser.__call__: a phraser handed to the engine by its caller produces
\* a list of spans of the document; the list is part of the document's annotation.
BasePhraser(d) == d.chunks

Phrasers == {"ContiguousNonStopTokenPhraser", "EntityAndNounChunkPhraser"}

\* self.phraser_class(doc)
phraser_class(ph, d) ==
    CASE ph = "ContiguousNonStopTokenPhraser" -> ContiguousNonStopTokenPhraser(d)
      [] ph = "EntityAndNounChunkPhraser"     -> EntityAndNounChunkPhraser(d)
      [] ph = "BasePhraser"                   -> BasePhraser(d)

----------------------------------------------------------------------------
(* cog.py: ProxiedDefaultDict *)

EmptyDict == <<>>

\* d with d[key] = v
Put(d, key, v) == (key :> v) @@ d

\* ProxiedDefaultDict.__getitem__: the value under proxy(k) and the dictionary
\* afterwards; a missing key is inserted with the default (defaultdict.__missing__).
PDD_getitem(m, d, default, k) ==
    With(token_mapper_class(m, k), LAMBDA key :
         IF key \in DOMAIN d
           THEN [value |-> d[key], dict |-> d]
           ELSE [value |-> default, dict |-> Put(d, key, default)])

\* ProxiedDefaultDict.__setitem__
PDD_setitem(m, d, k, v) == Put(d, token_mapper_class(m, k), v)

\* (a factory that hands out the graph of the call before)
co_occurange_graph_factory_Reused == co_occurance_graph

\* co_occurange_graph_factory(token_mapper): an empty adjacency matrix whose rows
\* default to an empty ProxiedDefaultDict(token_mapper, int).
co_occurange_graph_factory == EmptyDict

\* dict.get with a default: a read that inserts nothing
Get(d, key, default) == IF key \in DOMAIN d THEN d[key] ELSE default

\* the sum of d[k] over the keys k in ks
RECURSIVE SumOver(_, _)
SumOver(d, ks) ==
    IF ks = {} THEN 0
    ELSE With(CHOOSE x \in ks : TRUE, LAMBDA k : d[k] + SumOver(d, ks \ {k}))

\* sum(d.values())
SumValues(d) == SumOver(d, DOMAIN d)

----------------------------------------------------------------------------
(* rake2.py: the builders *)

\* (cograph[word][coword] = 1)
CogIncrement_Assign(m, g, word, coword) ==
    With(PDD_getitem(m, g, EmptyDict, word), LAMBDA row :
         PDD_setitem(m, row.dict, word, PDD_setitem(m, row.value, coword, 1)))

\* cograph[word][coword] += 1
CogIncrement(m, g, word, coword) ==
    With(PDD_getitem(m, g, EmptyDict, word), LAMBDA row :
    With(PDD_getitem(m, row.value, 0, coword), LAMBDA old :
         PDD_setitem(m, row.dict, word, PDD_setitem(m, old.dict, coword, old.value + 1))))

\* (a guard that looks at the first endpoint only)
BothKept_WordOnly(word, coword) == ~stop_token_class(word)

\* the guard of the increment: not (stop(word) or stop(coword))
BothKept(word, coword) == ~(stop_token_class(word) \/ stop_token_class(coword))

\* itertools.product(phrase, phrase) from the pair (a, b) of 1-based indices on
RECURSIVE CogPhrase(_, _, _, _, _)
CogPhrase(m, g, toks, a, b) ==
    IF a > Len(toks) THEN g
    ELSE IF b > Len(toks) THEN CogPhrase(m, g, toks, a + 1, 1)
    ELSE With(IF BothKept(toks[a], toks[b])
                THEN CogIncrement(m, g, toks[a], toks[b]) ELSE g,
              LAMBDA g2 : CogPhrase(m, g2, toks, a, b + 1))

RECURSIVE CogPhrases(_, _, _, _)
CogPhrases(m, g, d, ps) ==
    IF ps = <<>> THEN g
    ELSE With(CogPhrase(m, g, SpanTokens(d, Head(ps)), 1, 1),
              LAMBDA g2 : CogPhrases(m, g2, d, Tail(ps)))

\* Rake.generate_word_co_occurance_graph(phrases)
generate_word_co_occurance_graph(m, d, ps) ==
    CogPhrases(m, co_occurange_graph_factory, d, ps)

\* itertools.chain(*phrases)
RECURSIVE Chain(_, _)
Chain(d, ps) == IF ps = <<>> THEN <<>> ELSE SpanTokens(d, Head(ps)) \o Chain(d, Tail(ps))

\* (no token dropped)
IsWord_Any(t) == TRUE

\* the filter of the token stream: not self.stop_token_class(t)
IsWord(t) == ~stop_token_class(t)

\* collections.Counter(word_strings)
RECURSIVE Counter(_)
Counter(strings) ==
    IF strings = <<>> THEN EmptyDict
    ELSE With(Counter(SubSeq(strings, 1, Len(strings) - 1)), LAMBDA c :
              Put(c, strings[Len(strings)], Get(c, strings[Len(strings)], 0) + 1))

\* (the counts added onto the distribution the engine holds: an incremental update)
generate_frequency_dist_Accumulated(m, d, ps) ==
    With(SelectSeq(Chain(d, ps), IsWord), LAMBDA words :
    With([x \in 1..Len(words) |-> token_mapper_class(m, words[x])], LAMBDA word_strings :
    With(Counter(word_strings), LAMBDA fd :
         [k \in DOMAIN fd \cup DOMAIN frequency_dist |->
              Get(fd, k, 0) + Get(frequency_dist, k, 0)])))

\* Rake.generate_frequency_dist(phrases)
generate_frequency_dist(m, d, ps) ==
    With(SelectSeq(Chain(d, ps), IsWord), LAMBDA words :
    With([x \in 1..Len(words) |-> token_mapper_class(m, words[x])], LAMBDA word_strings :
         Counter(word_strings)))

\* for word in cograph: degree[word] = sum(cograph[word].values())
\* over the keys ks still to visit; cograph[word] is a lookup by the str word
RECURSIVE DegreeLoop(_, _, _, _)
DegreeLoop(m, g, ks, degree_) ==
    IF ks = {} THEN [value |-> degree_, dict |-> g]
    ELSE With(CHOOSE k \in ks : TRUE, LAMBDA word :
         With(PDD_getitem(m, g, EmptyDict, Str(word)), LAMBDA row :
              DegreeLoop(m, row.dict, ks \ {word},
                         Put(degree_, word, SumValues(row.value)))))

\* (the degree without the self-weight)
generate_degree_NoSelf(m, g) ==
    [value |-> [word \in DOMAIN g |-> SumOver(g[word], (DOMAIN g[word]) \ {word})],
     dict  |-> g]

\* Rake.generate_degree(): the degree, and the graph object as the lookups left it
generate_degree(m, g) == DegreeLoop(m, g, DOMAIN g, EmptyDict)

----------------------------------------------------------------------------
(* Scores: exact rationals <<num, den>>, den > 0, in lowest terms *)

RECURSIVE GCD(_, _)
GCD(a, b) == IF b = 0 THEN a ELSE GCD(b, a % b)

Rat(n, d) == With(GCD(IF n < 0 THEN -n ELSE n, d), LAMBDA g : <<n \div g, d \div g>>)

Zero == Rat(0, 1)

RatAdd(x, y) == Rat(x[1] * y[2] + y[1] * x[2], x[2] * y[2])

RatDivInt(x, n) == Rat(x[1], x[2] * n)

RatMul(x, y) == Rat(x[1] * y[1], x[2] * y[2])

RatLess(x, y) == x[1] * y[2] < y[1] * x[2]

----------------------------------------------------------------------------
(* scorers.py: each scorer yields its value and the graph as the lookups left it *)

\* cog[token][token]: the value, and the graph after both lookups (the row that
\* the first lookup returns is the object the second lookup may insert into).
Diagonal(m, cog, token) ==
    With(PDD_getitem(m, cog, EmptyDict, token), LAMBDA row :
    With(PDD_getitem(m, row.value, 0, token), LAMBDA cell :
         [value |-> cell.value, dict |-> PDD_setitem(m, row.dict, token, cell.dict)]))

\* float(sum(cog[token].values()))
DegreeScorer(m, cog, token) ==
    With(PDD_getitem(m, cog, EmptyDict, token), LAMBDA row :
         [value |-> Rat(SumValues(row.value), 1), dict |-> row.dict])

\* float(cog[token][token])
FrequencyScorer(m, cog, token) ==
    With(Diagonal(m, cog, token), LAMBDA freq :
         [value |-> Rat(freq.value, 1), dict |-> freq.dict])

\* (the ratio taken the other way round: freq / deg)
DegreeToFrequencyScorer_Inverted(m, cog, token) ==
    With(Diagonal(m, cog, token), LAMBDA freq :
    With(PDD_getitem(m, freq.dict, EmptyDict, token), LAMBDA row :
    With(SumValues(row.value), LAMBDA deg :
         [value |-> IF deg = 0 THEN Zero ELSE Rat(freq.value, deg),
          dict |-> row.dict])))

\* freq = cog[token][token]; deg = sum(cog[token].values())
\* float(0 if freq == 0 else deg / freq)
DegreeToFrequencyScorer(m, cog, token) ==
    With(Diagonal(m, cog, token), LAMBDA freq :
    With(PDD_getitem(m, freq.dict, EmptyDict, token), LAMBDA row :
    With(SumValues(row.value), LAMBDA deg :
         [value |-> IF freq.value = 0 THEN Zero ELSE Rat(deg, freq.value),
          dict |-> row.dict])))

\* (a penalty that grows towards the start of the document: token.i / len(token.doc))
LocationPenalizedFrequencyScorer_Position(m, cog, token) ==
    With(Diagonal(m, cog, token), LAMBDA freq :
         [value |-> Rat(freq.value * token.i, token.doclen), dict |-> freq.dict])

\* freq = cog[token][token]; 1.0 * freq * (len(token.doc) - token.i) / len(token.doc)
LocationPenalizedFrequencyScorer(m, cog, token) ==
    With(Diagonal(m, cog, token), LAMBDA freq :
         [value |-> Rat(freq.value * (token.doclen - token.i), token.doclen),
          dict |-> freq.dict])

Scorers == {"DegreeScorer", "FrequencyScorer", "DegreeToFrequencyScorer",
            "LocationPenalizedFrequencyScorer"}

\* self.word_scorer_class(cograph, t)
word_scorer_class(sc, m, cog, token) ==
    CASE sc = "DegreeScorer"                     -> DegreeScorer(m, cog, token)
      [] sc = "FrequencyScorer"                  -> FrequencyScorer(m, cog, token)
      [] sc = "DegreeToFrequencyScorer"          -> DegreeToFrequencyScorer(m, cog, token)
      [] sc = "LocationPenalizedFrequencyScorer" -> LocationPenalizedFrequencyScorer(m, cog, token)

----------------------------------------------------------------------------
(* aggregators.py: the value, or raised with the exception's type and message *)

\* sum(scores)
RECURSIVE SumSeq(_)
SumSeq(scores) ==
    IF scores = <<>> THEN Zero
    ELSE With(SumSeq(Tail(scores)), LAMBDA rest : RatAdd(Head(scores), rest))

SumAggregator(scores) == [raised |-> FALSE, error |-> "", value |-> SumSeq(scores)]

MeanAggregator(scores) ==
    IF Len(scores) = 0
      THEN [raised |-> TRUE, error |-> "ZeroDivisionError: division by zero", value |-> Zero]
      ELSE [raised |-> FALSE, error |-> "",
            value |-> RatDivInt(SumSeq(scores), Len(scores))]

\* PenalizedNormAggregator.__init__(max_len_before_penalization = 5)
DefaultMaxLenBeforePenalization == 5

\* np.linalg.norm(scores) ** 2: the sum of the squares
RECURSIVE NormSquared(_)
NormSquared(scores) ==
    IF scores = <<>> THEN Zero
    ELSE With(NormSquared(Tail(scores)), LAMBDA rest :
              RatAdd(RatMul(Head(scores), Head(scores)), rest))

\* len([s for s in scores if s != 0])
NonZeroCount(scores) == Len(SelectSeq(scores, LAMBDA sc : sc # Zero))

\* (a penalty that already starts at the threshold itself)
PenalizedNormAggregator_ThresholdExclusive(max_len_before_penalization, scores) ==
    With(NonZeroCount(scores), LAMBDA D0 :
    With(IF 1 <= D0 /\ D0 < max_len_before_penalization THEN 1 ELSE D0, LAMBDA D :
         [raised |-> FALSE, error |-> "",
          value_squared |-> IF D # 0 THEN RatDivInt(NormSquared(scores), D * D) ELSE Zero]))

\* PenalizedNormAggregator.__call__: float(N / D) if D != 0 else 0.  N / D is not
\* negative, and it is given by its square, N ** 2 / D ** 2.
PenalizedNormAggregator(max_len_before_penalization, scores) ==
    With(NonZeroCount(scores), LAMBDA D0 :
    With(IF 1 <= D0 /\ D0 <= max_len_before_penalization THEN 1 ELSE D0, LAMBDA D :
         [raised |-> FALSE, error |-> "",
          value_squared |-> IF D # 0 THEN RatDivInt(NormSquared(scores), D * D) ELSE Zero]))

Aggregators == {"SumAggregator", "MeanAggregator"}

\* self.aggregator_class(word_scores)
aggregator_class(ag, scores) ==
    CASE ag = "SumAggregator"  -> SumAggregator(scores)
      [] ag = "MeanAggregator" -> MeanAggregator(scores)

----------------------------------------------------------------------------
(* rake2.py: generate_ranklist *)

\* [word_scorer_class(cograph, t) for t in p], from the token at 1-based k on
RECURSIVE ScoreTokens(_, _, _, _, _)
ScoreTokens(sc, m, cog, toks, k) ==
    IF k > Len(toks) THEN [scores |-> <<>>, dict |-> cog]
    ELSE With(word_scorer_class(sc, m, cog, toks[k]), LAMBDA one :
         With(ScoreTokens(sc, m, one.dict, toks, k + 1), LAMBDA rest :
              [scores |-> <<one.value>> \o rest.scores, dict |-> rest.dict]))

\* scores = [([...], p) for p in phrases]
RECURSIVE ScorePhrases(_, _, _, _, _)
ScorePhrases(sc, m, cog, d, ps) ==
    IF ps = <<>> THEN [scores |-> <<>>, dict |-> cog]
    ELSE With(ScoreTokens(sc, m, cog, SpanTokens(d, Head(ps)), 1), LAMBDA one :
         With(ScorePhrases(sc, m, one.dict, d, Tail(ps)), LAMBDA rest :
              [scores |-> <<[word_scores |-> one.scores, p |-> Head(ps)]>> \o rest.scores,
               dict |-> rest.dict]))

\* (a sort key of the score alone)
KeyLess_ScoreOnly(d, x, y) == RatLess(y.score, x.score)

\* the sort key (-t[0], t[1].text), compared as Python compares tuples
KeyLess(d, x, y) ==
    \/ RatLess(y.score, x.score)
    \/ x.score = y.score /\ StrLess(SpanText(d, x.phrase), SpanText(d, y.phrase))

\* x goes before the first entry whose key is greater than its own
RECURSIVE InsertSorted(_, _, _)
InsertSorted(d, x, list) ==
    IF list = <<>> THEN <<x>>
    ELSE IF KeyLess(d, x, Head(list)) THEN <<x>> \o list
    ELSE <<Head(list)>> \o InsertSorted(d, x, Tail(list))

\* sorted(rank_list, key=...): a stable sort
RECURSIVE Sorted(_, _)
Sorted(d, list) ==
    IF list = <<>> THEN <<>>
    ELSE With(Sorted(d, SubSeq(list, 1, Len(list) - 1)), LAMBDA front :
              InsertSorted(d, list[Len(list)], front))

\* Rake.generate_ranklist(phrases): the sorted list (or raised), and the graph
\* object as scoring left it
\* rank_list = [(self.aggregator_class(word_scores), p) for word_scores, p in scores]
RECURSIVE Aggregate(_, _)
Aggregate(ag, scores) ==
    IF scores = <<>> THEN [raised |-> FALSE, error |-> "", value |-> <<>>]
    ELSE With(aggregator_class(ag, Head(scores).word_scores), LAMBDA one :
         With(Aggregate(ag, Tail(scores)), LAMBDA rest :
              [raised |-> one.raised \/ rest.raised,
               error  |-> IF one.raised THEN one.error ELSE rest.error,
               value  |-> <<[score |-> one.value, phrase |-> Head(scores).p]>> \o rest.value]))

generate_ranklist(c, cog, d, ps) ==
    With(ScorePhrases(c.word_scorer_class, c.token_mapper_class, cog, d, ps), LAMBDA scored :
    With(Aggregate(c.aggregator_class, scored.scores), LAMBDA rank :
         [raised |-> rank.raised,
          error  |-> rank.error,
          value  |-> IF rank.raised THEN <<>> ELSE Sorted(d, rank.value),
          scores |-> scored.scores,
          dict   |-> scored.dict]))

----------------------------------------------------------------------------
(* rake.py: the older engine, with token_key = 'text',                      *)
(* ranking_metric = Metric.DEGREE_TO_FREQUENCY_RATIO,                       *)
(* phrase_fn = 'contiguous_non_stop_phrases' and the default ignorables     *)

\* rake.Rake.word_score(t) under Metric.DEGREE_TO_FREQUENCY_RATIO; degree_ and
\* frequency_dist_ are a defaultdict(int) and a Counter (a missing key reads 0)
rake_word_score(degree_, frequency_dist_, t) ==
    With(t.text, LAMBDA word :
         IF Get(frequency_dist_, word, 0) > 0
           THEN Rat(Get(degree_, word, 0), Get(frequency_dist_, word, 0))
           ELSE Zero)

\* rake.Rake.generate_ranklist(phrases), score_agg_fn = sum
rake_generate_ranklist(degree_, frequency_dist_, d, ps) ==
    With([x \in 1..Len(ps) |->
            [score  |-> SumSeq([k \in 1..SpanLen(ps[x]) |->
                                  rake_word_score(degree_, frequency_dist_,
                                                  SpanTokens(d, ps[x])[k])]),
             phrase |-> ps[x]]],
         LAMBDA rank_list_ : Sorted(d, rank_list_))

\* rake.Rake.extract_keywords_from_text, from the parsed document on
rake_extract_keywords(min_length, max_length, d) ==
    With(SelectSeq(ContiguousNonStopTokenPhraser(d),
                   LAMBDA p : min_length <= SpanLen(p) /\ SpanLen(p) <= max_length),
         LAMBDA ps :
    With(generate_frequency_dist("TextMapper", d, ps), LAMBDA fd :
    With(generate_degree("TextMapper",
                         generate_word_co_occurance_graph("TextMapper", d, ps)).value,
         LAMBDA deg : rake_generate_ranklist(deg, fd, d, ps))))

----------------------------------------------------------------------------
(* The inputs: configurations and annotated documents *)

DefaultMinLength == 1

DefaultMaxLength == 100000

MinLengths == DefaultMinLength..(MaxDocLen - 1)

MaxLengths == (1..(MaxDocLen - 1)) \cup {DefaultMaxLength}

\* Rake.__init__ stores its arguments as they come.
Configs ==
    [min_length : MinLengths, max_length : MaxLengths, phraser_class : Phrasers,
     token_mapper_class : Mappers, word_scorer_class : Scorers,
     aggregator_class : Aggregators]

\* Rake() with every argument left at its default
DefaultConfig ==
    [min_length |-> DefaultMinLength, max_length |-> DefaultMaxLength,
     phraser_class |-> "ContiguousNonStopTokenPhraser",
     token_mapper_class |-> "LemmaMapper", word_scorer_class |-> "FrequencyScorer",
     aggregator_class |-> "SumAggregator"]

TokenSeqs(n) == UNION {[1..k -> Lexicon] : k \in 0..n}

AllSpans(n) == {SpanOf(s, e) : s \in 0..(n - 1), e \in 1..n} \ {SpanOf(e, e) : e \in 0..n}

ProperSpans(n) == {p \in AllSpans(n) : p.start < p.end}

Disjoint(p, q) == p.end <= q.start \/ q.end <= p.start

RECURSIVE InDocOrder(_)
InDocOrder(S) ==
    IF S = {} THEN <<>>
    ELSE LET first == CHOOSE p \in S : \A q \in S : p.start <= q.start
         IN <<first>> \o InDocOrder(S \ {first})

\* What filter_spans can return over n tokens: non-overlapping spans in document order.
ChunkLists(n) ==
    {InDocOrder(S) : S \in {T \in SUBSET ProperSpans(n) :
                                \A p, q \in T : p = q \/ Disjoint(p, q)}}

\* What a phraser of the caller can return over n tokens: any spans doc[s:e], the
\* empty ones (s = e) included, in any order.
SpanLists(n) ==
    UNION {[1..k -> {p \in {SpanOf(b, e) : b \in 0..n, e \in 0..n} : p.start <= p.end}]
              : k \in 0..MaxInjectedSpans}

\* The documents an engine with phraser ph is called on (ents and noun chunks are
\* read by the entity / noun-chunk phraser only).
Docs(ph) ==
    IF ph = "EntityAndNounChunkPhraser"
      THEN UNION {{[tokens |-> t, chunks |-> c] : c \in ChunkLists(Len(t))} :
                     t \in TokenSeqs(MaxChunkDocLen)}
    ELSE IF ph = "BasePhraser"
      THEN UNION {{[tokens |-> t, chunks |-> c] : c \in SpanLists(Len(t))} :
                     t \in TokenSeqs(MaxInjectedDocLen)}
      ELSE {[tokens |-> t, chunks |-> <<>>] : t \in TokenSeqs(MaxDocLen)}

EmptyDoc == [tokens |-> <<>>, chunks |-> <<>>]

NoProbe == [asked |-> FALSE]

----------------------------------------------------------------------------
(* The engine: rake2.Rake *)

Init ==
    /\ cfg \in Configs
    /\ pc = "idle"
    /\ doc = EmptyDoc
    /\ phrases = <<>>
    /\ co_occurance_graph = EmptyDict
    /\ frequency_dist = EmptyDict
    /\ degree = EmptyDict
    /\ rank_list = <<>>
    /\ ranked_phrases = <<>>
    /\ assigned = {}
    /\ returned = <<>>
    /\ probe = NoProbe
    /\ phrase_scores = <<>>

\* (a filter whose upper bound is exclusive)
InBounds_UpperExclusive(c, p) == c.min_length <= SpanLen(p) /\ SpanLen(p) < c.max_length

\* the length filter of apply_to_doc
InBounds(c, p) == c.min_length <= SpanLen(p) /\ SpanLen(p) <= c.max_length

\* phrases = [p for p in self.phraser_class(doc) if min_length <= len(p) <= max_length]
FilteredPhrases(c, d) ==
    LET all == phraser_class(c.phraser_class, d)
        Keep(p) == InBounds(c, p)
    IN SelectSeq(all, Keep)

\* apply_to_doc(doc), up to the list of phrases
apply_to_doc(d) ==
    /\ pc = "idle"
    /\ Len(returned) < MaxCalls
    /\ doc' = d
    /\ phrases' = FilteredPhrases(cfg, d)
    /\ pc' = "cograph"
    /\ UNCHANGED <<cfg, co_occurance_graph, frequency_dist, degree, rank_list,
                   ranked_phrases, assigned, returned, probe, phrase_scores>>

\* self.co_occurance_graph = self.generate_word_co_occurance_graph(phrases)
step_cograph ==
    /\ pc = "cograph"
    /\ co_occurance_graph' =
           generate_word_co_occurance_graph(cfg.token_mapper_class, doc, phrases)
    /\ assigned' = assigned \cup {"co_occurance_graph"}
    /\ pc' = "freq"
    /\ UNCHANGED <<cfg, doc, phrases, frequency_dist, degree, rank_list,
                   ranked_phrases, returned, probe, phrase_scores>>

\* self.frequency_dist = self.generate_frequency_dist(phrases)
step_frequency_dist ==
    /\ pc = "freq"
    /\ frequency_dist' = generate_frequency_dist(cfg.token_mapper_class, doc, phrases)
    /\ assigned' = assigned \cup {"frequency_dist"}
    /\ pc' = "degree"
    /\ UNCHANGED <<cfg, doc, phrases, co_occurance_graph, degree, rank_list,
                   ranked_phrases, returned, probe, phrase_scores>>

\* self.degree = self.generate_degree()
step_degree ==
    /\ pc = "degree"
    /\ \E r \in {generate_degree(cfg.token_mapper_class, co_occurance_graph)} :
          /\ degree' = r.value
          /\ co_occurance_graph' = r.dict
    /\ assigned' = assigned \cup {"degree"}
    /\ pc' = "ranklist"
    /\ UNCHANGED <<cfg, doc, phrases, frequency_dist, rank_list,
                   ranked_phrases, returned, probe, phrase_scores>>

\* (the candidate phrases in the phraser's order instead of the ranked order)
StripScores_Unranked(rl) == phrases

\* [p for _, p in self.rank_list]
StripScores(rl) == [x \in 1..Len(rl) |-> rl[x].phrase]

\* self.rank_list = self.generate_ranklist(phrases)
\* self.ranked_phrases = [p for _, p in self.rank_list]
\* return self.rank_list
\* (an exception of the aggregator leaves apply_to_doc before the assignment)
step_ranklist ==
    /\ pc = "ranklist"
    /\ \E r \in {generate_ranklist(cfg, co_occurance_graph, doc, phrases)} :
          /\ co_occurance_graph' = r.dict
          /\ phrase_scores' = r.scores
          /\ IF r.raised
               THEN /\ UNCHANGED <<rank_list, ranked_phrases, assigned>>
                    /\ returned' = Append(returned, [doc |-> doc, raised |-> TRUE,
                                                  error |-> r.error, value |-> <<>>])
               ELSE /\ rank_list' = r.value
                    /\ ranked_phrases' = StripScores(r.value)
                    /\ assigned' = assigned \cup {"rank_list", "ranked_phrases"}
                    /\ returned' = Append(returned, [doc |-> doc, raised |-> FALSE,
                                                  error |-> "", value |-> r.value])
    /\ pc' = "idle"
    /\ UNCHANGED <<cfg, doc, phrases, frequency_dist, degree, probe>>

\* The calls made on one engine are calls on one document.
Next ==
    \/ \E d \in Docs(cfg.phraser_class) : (returned # <<>> => d = doc) /\ apply_to_doc(d)
    \/ step_cograph
    \/ step_frequency_dist
    \/ step_degree
    \/ step_ranklist

Spec == Init /\ [][Next]_vars

----------------------------------------------------------------------------
(* The engine with a phraser of its caller and a lower bound of 0 or 1 *)

InjectedConfigs ==
    [min_length : {0, DefaultMinLength}, max_length : {DefaultMaxLength},
     phraser_class : {"BasePhraser"}, token_mapper_class : Mappers,
     word_scorer_class : Scorers, aggregator_class : Aggregators]

InitInjected ==
    /\ cfg \in InjectedConfigs
    /\ pc = "idle"
    /\ doc = EmptyDoc
    /\ phrases = <<>>
    /\ co_occurance_graph = EmptyDict
    /\ frequency_dist = EmptyDict
    /\ degree = EmptyDict
    /\ rank_list = <<>>
    /\ ranked_phrases = <<>>
    /\ assigned = {}
    /\ returned = <<>>
    /\ probe = NoProbe
    /\ phrase_scores = <<>>

SpecInjected == InitInjected /\ [][Next]_vars

----------------------------------------------------------------------------
(* The engine called on one document after another *)

\* the longest documents of a sequence of calls
MaxSeqDocLen == 2

MaxSeqChunkDocLen == 1

SeqConfigs == {c \in Configs : c.min_length = DefaultMinLength
                                 /\ c.max_length = DefaultMaxLength}

SeqDocs(ph) ==
    IF ph = "EntityAndNounChunkPhraser"
      THEN UNION {{[tokens |-> t, chunks |-> c] : c \in ChunkLists(Len(t))} :
                     t \in TokenSeqs(MaxSeqChunkDocLen)}
      ELSE {[tokens |-> t, chunks |-> <<>>] : t \in TokenSeqs(MaxSeqDocLen)}

InitSeq ==
    /\ cfg \in SeqConfigs
    /\ pc = "idle"
    /\ doc = EmptyDoc
    /\ phrases = <<>>
    /\ co_occurance_graph = EmptyDict
    /\ frequency_dist = EmptyDict
    /\ degree = EmptyDict
    /\ rank_list = <<>>
    /\ ranked_phrases = <<>>
    /\ assigned = {}
    /\ returned = <<>>
    /\ probe = NoProbe
    /\ phrase_scores = <<>>

NextSeq ==
    \/ \E d \in SeqDocs(cfg.phraser_class) : apply_to_doc(d)
    \/ step_cograph
    \/ step_frequency_dist
    \/ step_degree
    \/ step_ranklist

SpecSeq == InitSeq /\ [][NextSeq]_vars

----------------------------------------------------------------------------
(* PenalizedNormAggregator on its own, applied to lists of scores *)

ScoreValues == {Zero, Rat(1, 1), Rat(2, 1), Rat(1, 2)}

ScoreLists == UNION {[1..k -> ScoreValues] : k \in 0..MaxScores}

\* the thresholds the aggregator is constructed with
Thresholds == (1..(MaxScores - 1)) \cup {DefaultMaxLenBeforePenalization}

InitAggregator ==
    /\ cfg = DefaultConfig
    /\ pc = "idle"
    /\ doc = EmptyDoc
    /\ phrases = <<>>
    /\ co_occurance_graph = EmptyDict
    /\ frequency_dist = EmptyDict
    /\ degree = EmptyDict
    /\ rank_list = <<>>
    /\ ranked_phrases = <<>>
    /\ assigned = {}
    /\ returned = <<>>
    /\ probe \in [asked : {FALSE}, scores : ScoreLists,
                   max_len_before_penalization : Thresholds]
    /\ phrase_scores = <<>>

\* PenalizedNormAggregator(max_len_before_penalization)(scores)
call_aggregator ==
    /\ pc = "idle"
    /\ ~probe.asked
    /\ probe' = [asked |-> TRUE, scores |-> probe.scores,
                 max_len_before_penalization |-> probe.max_len_before_penalization,
                 result |-> PenalizedNormAggregator(probe.max_len_before_penalization,
                                                    probe.scores)]
    /\ pc' = "aggregated"
    /\ UNCHANGED <<cfg, doc, phrases, co_occurance_graph, frequency_dist, degree,
                   rank_list, ranked_phrases, assigned, returned, phrase_scores>>

NextAggregator == call_aggregator

SpecAggregator == InitAggregator /\ [][NextAggregator]_vars

----------------------------------------------------------------------------
(* The strategy objects on their own: the stop-token indicator and the       *)
(* contiguous-run phraser applied to documents of arbitrarily flagged tokens *)

FlagDocs ==
    {[tokens |-> t, chunks |-> <<>>] :
        t \in UNION {[1..k -> FlagLexicon] : k \in 0..MaxFlagDocLen}}

InitStop ==
    /\ cfg = DefaultConfig
    /\ pc = "idle"
    /\ doc \in FlagDocs
    /\ phrases = <<>>
    /\ co_occurance_graph = EmptyDict
    /\ frequency_dist = EmptyDict
    /\ degree = EmptyDict
    /\ rank_list = <<>>
    /\ ranked_phrases = <<>>
    /\ assigned = {}
    /\ returned = <<>>
    /\ probe = NoProbe
    /\ phrase_scores = <<>>

\* [indicator(t) for t in doc] and [r.to_ignore(t) for t in doc]
indicate(use_default_ignorables) ==
    /\ pc = "idle"
    /\ probe' = [asked |-> TRUE,
                 use_default_ignorables |-> use_default_ignorables,
                 indicator |-> [i \in 1..Len(doc.tokens) |->
                                  BasicStopTokenIndicator(Tok(doc, i - 1))],
                 to_ignore |-> [i \in 1..Len(doc.tokens) |->
                                  to_ignore(use_default_ignorables, Tok(doc, i - 1))]]
    /\ pc' = "indicated"
    /\ UNCHANGED <<cfg, doc, phrases, co_occurance_graph, frequency_dist, degree,
                   rank_list, ranked_phrases, assigned, returned, phrase_scores>>

\* phrasers.ContiguousNonStopTokenPhraser()(doc)
call_phraser ==
    /\ pc = "idle"
    /\ phrases' = ContiguousNonStopTokenPhraser(doc)
    /\ pc' = "phrased"
    /\ UNCHANGED <<cfg, doc, co_occurance_graph, frequency_dist, degree, rank_list,
                   ranked_phrases, assigned, returned, probe, phrase_scores>>

NextStop ==
    \/ \E u \in BOOLEAN : indicate(u)
    \/ call_phraser

SpecStop == InitStop /\ [][NextStop]_vars

----------------------------------------------------------------------------
(* Properties *)

\* an extraction call has completed and none is running
Completed == pc = "idle" /\ returned # <<>>

\* what the last completed call returned
LastReturned == returned[Len(returned)].value

\* the number of entries of a list that satisfy a test
Count(list, Test(_)) == Cardinality({x \in 1..Len(list) : Test(list[x])})

\* C1: the rank list an extraction call returns is ordered by score descending,
\* entries of equal score by rendered text ascending, and it is a permutation of
\* the filtered candidate phrases (one entry per phrase).
C1_RankListSorted ==
    Completed =>
        LET rl == LastReturned
        IN /\ \A x \in 1..(Len(rl) - 1) :
                \/ RatLess(rl[x + 1].score, rl[x].score)
                \/ /\ rl[x].score = rl[x + 1].score
                   /\ StrLeq(SpanText(doc, rl[x].phrase), SpanText(doc, rl[x + 1].phrase))
           /\ Len(rl) = Len(phrases)
           /\ \A p \in {phrases[x] : x \in 1..Len(phrases)} :
                 Count(rl, LAMBDA e : e.phrase = p) = Count(phrases, LAMBDA q : q = p)

\* C1 witness: a returned list in which two phrases tie on the score and the text
\* order has put the later phrase of the document first.
C1_Witness ==
    /\ Completed
    /\ \E x \in 1..(Len(LastReturned) - 1) :
          /\ LastReturned[x].score = LastReturned[x + 1].score
          /\ LastReturned[x].phrase.start > LastReturned[x + 1].phrase.start
          /\ StrLess(SpanText(doc, LastReturned[x].phrase),
                     SpanText(doc, LastReturned[x + 1].phrase))

\* C2: two extraction calls on the same document with the same configuration
\* return the identical ordered list of (score, phrase) pairs.
C2_Deterministic ==
    \A x, y \in 1..Len(returned) :
        returned[x].doc = returned[y].doc =>
            /\ returned[x].raised = returned[y].raised
            /\ returned[x].value = returned[y].value

\* C2 witness: the second call on a document has returned, and its list holds two
\* distinct phrases with the same score and the same rendered text.
C2_Witness ==
    /\ Len(returned) = 2
    /\ returned[1].doc = returned[2].doc
    /\ \E x \in 1..(Len(returned[2].value) - 1) :
          LET e == returned[2].value[x]
              f == returned[2].value[x + 1]
          IN /\ e.score = f.score
             /\ e.phrase # f.phrase
             /\ SpanText(doc, e.phrase) = SpanText(doc, f.phrase)

\* graph[a][b], an absent entry counting as 0
Weight(g, a, b) == IF a \in DOMAIN g /\ b \in DOMAIN g[a] THEN g[a][b] ELSE 0

\* the canonical key of the token at position i of the document
KeyAt(i) == token_mapper_class(cfg.token_mapper_class, Tok(doc, i))

\* the positions of the non-stop tokens of phrase p whose canonical key is k
Occurrences(p, k) ==
    {i \in p.start..(p.end - 1) : ~BasicStopTokenIndicator(Tok(doc, i)) /\ KeyAt(i) = k}

\* every string that is the canonical key of a token of the document
DocKeys == {KeyAt(i) : i \in 0..(Len(doc.tokens) - 1)}

\* the sum of F(p) over the phrases of a list
RECURSIVE SumNat(_)
SumNat(ns) == IF ns = <<>> THEN 0 ELSE Head(ns) + SumNat(Tail(ns))

SumPhrases(ps, F(_)) == SumNat([x \in 1..Len(ps) |-> F(ps[x])])

\* C3: after an extraction call, graph[a][b] = graph[b][a] for all keys a, b of
\* the engine's co-occurrence graph (an absent entry counting as 0).
C3_Symmetry ==
    Completed =>
        \A a, b \in DOMAIN co_occurance_graph :
            Weight(co_occurance_graph, a, b) = Weight(co_occurance_graph, b, a)

\* C3 witness: a completed call whose graph holds a weight between two distinct keys.
C3_Witness ==
    /\ Completed
    /\ \E a, b \in DOMAIN co_occurance_graph :
          a # b /\ Weight(co_occurance_graph, a, b) > 0

\* C4: after an extraction call, degree[w] (a defaultdict(int) lookup) is the sum
\* of row graph[w], for every key w of the graph as it stands at the end of the call.
C4_DegreeIsRowSum ==
    Completed =>
        \A w \in DOMAIN co_occurance_graph :
            Get(degree, w, 0) = SumValues(co_occurance_graph[w])

\* C4 witness: a completed call whose graph has a key that scoring added after the
\* degree was derived, beside a key with a positive degree.
C4_Witness ==
    /\ Completed
    /\ \E w \in DOMAIN co_occurance_graph : w \notin DOMAIN degree
    /\ \E w \in DOMAIN degree : degree[w] >= 1

\* C5: the graph that generate_word_co_occurance_graph builds has
\* graph[a][b] = sum over the phrases of (occurrences of a) x (occurrences of b),
\* and an entry exactly for the pairs that co-occur in some phrase.
C5_GraphConstruction ==
    pc = "freq" =>
        LET g == co_occurance_graph
            Co(a, b) == SumPhrases(phrases, LAMBDA p :
                            Cardinality(Occurrences(p, a)) * Cardinality(Occurrences(p, b)))
        IN /\ DOMAIN g \subseteq DocKeys
           /\ \A a \in DocKeys :
                 /\ a \in DOMAIN g <=> Co(a, a) > 0
                 /\ a \in DOMAIN g => DOMAIN g[a] \subseteq DocKeys
                 /\ \A b \in DocKeys :
                       /\ Weight(g, a, b) = Co(a, b)
                       /\ (a \in DOMAIN g /\ b \in DOMAIN g[a]) <=> Co(a, b) > 0

\* C5 witness: a graph just built from a phrase that holds a key twice, its
\* diagonal entry being the square of that count.
C5_Witness ==
    /\ pc = "freq"
    /\ \E x \in 1..Len(phrases), w \in DOMAIN co_occurance_graph :
          /\ Cardinality(Occurrences(phrases[x], w)) = 2
          /\ co_occurance_graph[w][w] = 4

\* C6: generate_frequency_dist maps each canonical key to the number of non-stop
\* tokens of the phrases that have this key, and has no entry for other keys.
C6_FrequencyDist ==
    pc = "degree" =>
        /\ DOMAIN frequency_dist \subseteq DocKeys
        /\ \A k \in DocKeys :
              LET n == SumPhrases(phrases, LAMBDA p : Cardinality(Occurrences(p, k)))
              IN /\ Get(frequency_dist, k, 0) = n
                 /\ k \in DOMAIN frequency_dist <=> n > 0

\* C6 witness: a distribution just built in which one key counts two tokens of
\* different text.
C6_Witness ==
    /\ pc = "degree"
    /\ \E k \in DOMAIN frequency_dist, x \in 1..Len(phrases) :
          /\ frequency_dist[k] = 2
          /\ \E i, j \in Occurrences(phrases[x], k) :
                doc.tokens[i + 1].text # doc.tokens[j + 1].text

\* C7: the contiguous-run phraser emits exactly the maximal runs of consecutive
\* non-stop tokens, in document order: each span is non-empty and holds no stop
\* token, the token before its start and the token after its end (when they
\* exist) are stop tokens, the spans are pairwise disjoint, and every non-stop
\* token lies in exactly one span (so a run open at the end of the document is
\* emitted).
C7_MaximalRuns ==
    pc = "phrased" =>
        LET n == Len(doc.tokens)
            IsStop(i) == BasicStopTokenIndicator(Tok(doc, i))
        IN /\ \A x \in 1..Len(phrases) :
                 /\ 0 <= phrases[x].start /\ phrases[x].start < phrases[x].end
                 /\ phrases[x].end <= n
                 /\ \A i \in phrases[x].start..(phrases[x].end - 1) : ~IsStop(i)
                 /\ phrases[x].start > 0 => IsStop(phrases[x].start - 1)
                 /\ phrases[x].end < n => IsStop(phrases[x].end)
           /\ \A x, y \in 1..Len(phrases) : x < y => phrases[x].end <= phrases[y].start
           /\ \A i \in 0..(n - 1) :
                 ~IsStop(i) =>
                     Cardinality({x \in 1..Len(phrases) :
                                     phrases[x].start <= i /\ i < phrases[x].end}) = 1

\* C7 witness: the phraser has emitted two runs, the second one still open at the
\* end of the document and made of a numeric-like token flagged as a stop word.
C7_Witness ==
    /\ pc = "phrased"
    /\ Len(phrases) = 2
    /\ phrases[2].end = Len(doc.tokens)
    /\ doc.tokens[Len(doc.tokens)].is_stop
    /\ doc.tokens[Len(doc.tokens)].like_num

\* C8: every phrase that contributes to the co-occurrence graph, the frequency
\* distribution or the rank list of an extraction has a token count n with
\* min_length <= n <= max_length, and every phrase the phraser produced with a
\* token count inside the bounds appears in the rank list exactly once.
C8_LengthFilter ==
    LET produced == phraser_class(cfg.phraser_class, doc)
        Within(p) == cfg.min_length <= p.end - p.start /\ p.end - p.start <= cfg.max_length
        KeysWithin == {KeyAt(i) : i \in UNION {produced[x].start..(produced[x].end - 1) :
                                      x \in {y \in 1..Len(produced) : Within(produced[y])}}}
    IN /\ pc # "idle" => \A x \in 1..Len(phrases) : Within(phrases[x])
       /\ pc \in {"freq", "degree", "ranklist"} \/ Completed =>
             /\ DOMAIN co_occurance_graph \subseteq KeysWithin
             /\ \A a \in DOMAIN co_occurance_graph :
                   DOMAIN co_occurance_graph[a] \subseteq KeysWithin
       /\ pc \in {"degree", "ranklist"} \/ Completed =>
             DOMAIN frequency_dist \subseteq KeysWithin
       /\ Completed /\ ~returned[Len(returned)].raised =>
             /\ rank_list = LastReturned
             /\ \A x \in 1..Len(rank_list) : Within(rank_list[x].phrase)
             /\ \A x \in 1..Len(produced) :
                   Within(produced[x]) =>
                       Count(rank_list, LAMBDA e : e.phrase = produced[x]) = 1

\* C8 witness: a completed call whose rank list holds two phrases, each with a
\* token count equal to both bounds.
C8_Witness ==
    /\ Completed
    /\ Len(rank_list) = 2
    /\ \A x \in 1..2 :
          /\ rank_list[x].phrase.end - rank_list[x].phrase.start = cfg.min_length
          /\ rank_list[x].phrase.end - rank_list[x].phrase.start = cfg.max_length

\* C9: for every combination of the four token flags the indicator answers true
\* exactly when (is_stop or is_space or is_punct) and not like_num; a numeric-like
\* token is never a stop token; tokens with the same four flags get the same
\* answer; the older engine's to_ignore, with its default settings, agrees.
C9_StopTokenPolicy ==
    probe.asked =>
        \A i \in 1..Len(doc.tokens) :
            LET t == doc.tokens[i]
            IN /\ t.like_num => ~probe.indicator[i]
               /\ ~t.like_num =>
                     (probe.indicator[i] <=> (t.is_stop \/ t.is_space \/ t.is_punct))
               /\ \A j \in 1..Len(doc.tokens) :
                     (/\ doc.tokens[j].is_stop = t.is_stop
                      /\ doc.tokens[j].is_space = t.is_space
                      /\ doc.tokens[j].is_punct = t.is_punct
                      /\ doc.tokens[j].like_num = t.like_num)
                         => probe.indicator[j] = probe.indicator[i]
               /\ probe.use_default_ignorables => probe.to_ignore[i] = probe.indicator[i]

\* C9 witness: the indicator has answered for a numeric-like token flagged as stop
\* word, space and punctuation, for a punctuation token that is not numeric-like,
\* and for two tokens of different text with the same flags.
C9_Witness ==
    /\ probe.asked
    /\ probe.use_default_ignorables
    /\ \E i, j, k \in 1..Len(doc.tokens) :
          /\ doc.tokens[i].like_num /\ doc.tokens[i].is_stop
          /\ doc.tokens[i].is_space /\ doc.tokens[i].is_punct
          /\ ~probe.indicator[i]
          /\ doc.tokens[j].is_punct /\ ~doc.tokens[j].like_num /\ probe.indicator[j]
          /\ doc.tokens[k].text # doc.tokens[j].text
          /\ [doc.tokens[k] EXCEPT !.text = <<>>, !.lemma_ = <<>>]
                = [doc.tokens[j] EXCEPT !.text = <<>>, !.lemma_ = <<>>]

\* C10: an engine whose max_length is below its min_length is never created, so
\* no extraction call ever completes on such an engine.
C10_InvalidBoundsRejected ==
    Completed => cfg.min_length <= cfg.max_length

\* C11: with the raw-text mapper, the contiguous-run phraser,
\* DegreeToFrequencyScorer and SumAggregator the engine returns the scores and the
\* order of original RAKE: the list rake.Rake returns with token_key = 'text',
\* Metric.DEGREE_TO_FREQUENCY_RATIO and contiguous_non_stop_phrases, where a
\* word scores degree[w] / frequency_dist[w].
C11_ReproducesRake ==
    (/\ Completed
     /\ cfg.token_mapper_class = "TextMapper"
     /\ cfg.phraser_class = "ContiguousNonStopTokenPhraser"
     /\ cfg.word_scorer_class = "DegreeToFrequencyScorer"
     /\ cfg.aggregator_class = "SumAggregator")
        => LastReturned = rake_extract_keywords(cfg.min_length, cfg.max_length, doc)

\* C12: for each provided mapper and every token t, mapper(mapper(t)) = mapper(t);
\* so a graph lookup by a token and by the token's canonical string reach the same
\* entry, and deriving the degree (which looks the graph up by its own string
\* keys) creates no new node.
C12_IdempotentMapper ==
    /\ \A m \in Mappers : \A i \in 0..(Len(doc.tokens) - 1) :
          token_mapper_class(m, Str(token_mapper_class(m, Tok(doc, i))))
              = token_mapper_class(m, Tok(doc, i))
    /\ pc = "ranklist" =>
          /\ DOMAIN co_occurance_graph =
                 {k \in DocKeys : \E x \in 1..Len(phrases) : Occurrences(phrases[x], k) # {}}
          /\ DOMAIN degree = DOMAIN co_occurance_graph
          /\ \A i \in 0..(Len(doc.tokens) - 1) :
                PDD_getitem(cfg.token_mapper_class, co_occurance_graph, EmptyDict,
                            Tok(doc, i)).value
                  = PDD_getitem(cfg.token_mapper_class, co_occurance_graph, EmptyDict,
                                Str(KeyAt(i))).value

\* C12 witness: the degree has just been derived from a graph with a node whose
\* key is neither the text nor the lemma of the token it stands for.
C12_Witness ==
    /\ pc = "ranklist"
    /\ \E i \in 0..(Len(doc.tokens) - 1) :
          /\ KeyAt(i) \in DOMAIN degree
          /\ KeyAt(i) \in DOMAIN co_occurance_graph
          /\ KeyAt(i) # Tok(doc, i).text
          /\ KeyAt(i) # Tok(doc, i).lemma_
          /\ \E x \in 1..Len(phrases) : i \in Occurrences(phrases[x], KeyAt(i))

\* C13: a call that fails returns nothing and leaves no partial result behind:
\* after a failed first call on a new engine the result fields co_occurance_graph,
\* frequency_dist, degree, rank_list and ranked_phrases are as they were before
\* the call.
C13_NoPartialResults ==
    /\ \A x \in 1..Len(returned) : returned[x].raised => returned[x].value = <<>>
    /\ (pc = "idle" /\ Len(returned) = 1 /\ returned[1].raised) =>
          /\ co_occurance_graph = EmptyDict
          /\ frequency_dist = EmptyDict
          /\ degree = EmptyDict
          /\ rank_list = <<>>
          /\ ranked_phrases = <<>>

\* C14: when an empty score list reaches MeanAggregator the call fails with an
\* explicit error naming the empty phrase, not with the division's own error (or
\* no empty list ever reaches it, the engine requiring min_length >= 1).
C14_EmptyMeanGuarded ==
    (/\ pc = "idle"
     /\ cfg.aggregator_class = "MeanAggregator"
     /\ \E x \in 1..Len(phrase_scores) : phrase_scores[x].word_scores = <<>>)
        => /\ returned[Len(returned)].raised
           /\ returned[Len(returned)].error # "ZeroDivisionError: division by zero"

C16_ScorerValues ==
    Completed =>
        LET g == co_occurance_graph
            n == Len(doc.tokens)
            RowSum(w) == IF w \in DOMAIN g THEN SumValues(g[w]) ELSE 0
            Scored == {<<x, k>> \in (1..Len(phrase_scores)) \X (1..n) :
                          k <= Len(phrase_scores[x].word_scores)}
            Pos(e) == phrase_scores[e[1]].p.start + e[2] - 1
            Score(e) == phrase_scores[e[1]].word_scores[e[2]]
        IN \A e \in Scored :
                 LET w == KeyAt(Pos(e))
                     diag == Weight(g, w, w)
                 IN CASE cfg.word_scorer_class = "DegreeScorer" ->
                            Score(e) = Rat(RowSum(w), 1)
                      [] cfg.word_scorer_class = "FrequencyScorer" ->
                            Score(e) = Rat(diag, 1)
                      [] cfg.word_scorer_class = "DegreeToFrequencyScorer" ->
                            Score(e) = IF diag = 0 THEN Zero ELSE Rat(RowSum(w), diag)
                      [] cfg.word_scorer_class = "LocationPenalizedFrequencyScorer" ->
                            /\ Score(e) = Rat(diag * (n - Pos(e)), n)
                            /\ \A f \in Scored :
                                  (/\ Pos(e) < Pos(f)
                                   /\ diag # 0
                                   /\ Weight(g, KeyAt(Pos(f)), KeyAt(Pos(f))) = diag)
                                      => RatLess(Score(f), Score(e))

\* C16 witness: two scored tokens of one phrase with the same key, a non-zero
\* score and a diagonal that is not their count in the frequency distribution.
C16_Witness ==
    /\ Completed
    /\ \E x \in 1..Len(phrase_scores) : \E i, j \in 1..Len(phrase_scores[x].word_scores) :
          /\ i < j
          /\ phrase_scores[x].word_scores[i] # Zero
          /\ KeyAt(phrase_scores[x].p.start + i - 1) = KeyAt(phrase_scores[x].p.start + j - 1)
          /\ Weight(co_occurance_graph, KeyAt(phrase_scores[x].p.start + i - 1),
                    KeyAt(phrase_scores[x].p.start + i - 1))
                # Get(frequency_dist, KeyAt(phrase_scores[x].p.start + i - 1), 0)

\* C17: after every completed extraction call, also after several, ranked_phrases
\* is rank_list with the scores stripped (same length, ranked_phrases[i] the
\* phrase of rank_list[i]) and rank_list is the list the call returned.
C17_TwoViews ==
    (Completed /\ ~returned[Len(returned)].raised) =>
        /\ Len(ranked_phrases) = Len(rank_list)
        /\ \A i \in 1..Len(rank_list) : ranked_phrases[i] = rank_list[i].phrase
        /\ rank_list = LastReturned

\* C17 witness: the second call on an engine has completed with a rank list that
\* puts a later phrase of the document before an earlier one.
C17_Witness ==
    /\ Completed
    /\ Len(returned) = 2
    /\ ~returned[2].raised
    /\ \E i, j \in 1..Len(rank_list) :
          i < j /\ rank_list[i].phrase.start > rank_list[j].phrase.start

\* C18: scoring performs no mutation: the step that scores the phrases
\* (generate_ranklist) leaves the co-occurrence graph, its set of nodes and all
\* its entries, as the builder returned it, also when a scored token is a stop
\* token or has a key that is not a node of the graph.
C18_ScoringNoMutation ==
    [][pc = "ranklist" => co_occurance_graph' = co_occurance_graph]_vars

\* C19: for each phrase the list of word scores handed to the aggregator has
\* exactly one entry per non-stop token of the phrase and none for a stop token
\* inside the phrase.
C19_OnlyNonStopScored ==
    Completed =>
        \A x \in 1..Len(phrase_scores) :
            Len(phrase_scores[x].word_scores) =
                Cardinality({i \in phrase_scores[x].p.start..(phrase_scores[x].p.end - 1) :
                                ~BasicStopTokenIndicator(Tok(doc, i))})

\* C20: after any sequence of extraction calls on one engine, the graph, the
\* frequency distribution, the degree and the rank list held after a call on
\* document d are those a freshly constructed engine with the same configuration
\* produces for d; no node, count or phrase of an earlier call survives.
C20_FullRecomputation ==
    Completed =>
        LET ps == FilteredPhrases(cfg, doc)
            Co(a, b) == SumPhrases(ps, LAMBDA p :
                            Cardinality(Occurrences(p, a)) * Cardinality(Occurrences(p, b)))
            Cnt(k) == SumPhrases(ps, LAMBDA p : Cardinality(Occurrences(p, k)))
        IN /\ DOMAIN co_occurance_graph \subseteq DocKeys
           /\ \A a, b \in DocKeys : Weight(co_occurance_graph, a, b) = Co(a, b)
           /\ DOMAIN frequency_dist = {k \in DocKeys : Cnt(k) > 0}
           /\ \A k \in DOMAIN frequency_dist : frequency_dist[k] = Cnt(k)
           /\ DOMAIN degree = {k \in DocKeys : Co(k, k) > 0}
           /\ \A k \in DOMAIN degree :
                 degree[k] = SumValues([b \in DocKeys |-> Co(k, b)])
           /\ rank_list = generate_ranklist(cfg, co_occurance_graph, doc, ps).value

\* C20 witness: the second call has completed on a document other than the first
\* call's, whose graph does not hold a key that the first document gave rise to.
C20_Witness ==
    /\ Completed
    /\ Len(returned) = 2
    /\ returned[1].doc # returned[2].doc
    /\ returned[1].value # <<>>
    /\ DOMAIN co_occurance_graph # {}
    /\ \E i \in 1..Len(returned[1].doc.tokens) :
          token_mapper_class(cfg.token_mapper_class, Tok(returned[1].doc, i - 1))
              \notin DOMAIN co_occurance_graph

\* C21: for every key w of the frequency distribution, w is a node of the built
\* graph and graph[w][w] >= frequency_dist[w] >= 1, with equality exactly when no
\* single phrase holds two non-stop tokens with key w; hence
\* degree[w] >= graph[w][w] >= 1, and DegreeToFrequencyScorer returns at least 1
\* for every non-stop token of a filtered phrase.
C21_FrequencyRelation ==
    /\ (pc \in {"degree", "ranklist"} \/ Completed) =>
          \A w \in DOMAIN frequency_dist :
              /\ w \in DOMAIN co_occurance_graph
              /\ w \in DOMAIN co_occurance_graph[w]
              /\ co_occurance_graph[w][w] >= frequency_dist[w]
              /\ frequency_dist[w] >= 1
              /\ co_occurance_graph[w][w] = frequency_dist[w]
                    <=> ~\E x \in 1..Len(phrases) :
                            Cardinality(Occurrences(phrases[x], w)) >= 2
    /\ (pc = "ranklist" \/ Completed) =>
          \A w \in DOMAIN frequency_dist :
              /\ w \in DOMAIN degree
              /\ degree[w] >= co_occurance_graph[w][w]
    /\ (Completed /\ cfg.word_scorer_class = "DegreeToFrequencyScorer") =>
          \A x \in 1..Len(phrase_scores) :
              \A k \in 1..Len(phrase_scores[x].word_scores) :
                  ~BasicStopTokenIndicator(Tok(doc, phrase_scores[x].p.start + k - 1))
                      => ~RatLess(phrase_scores[x].word_scores[k], Rat(1, 1))

\* C21 witness: a completed call under DegreeToFrequencyScorer in which one key
\* occurs twice in a phrase (diagonal above its count), another key has diagonal
\* equal to its count, and a non-stop token scores above 1.
C21_Witness ==
    /\ Completed
    /\ cfg.word_scorer_class = "DegreeToFrequencyScorer"
    /\ \E w \in DOMAIN frequency_dist : co_occurance_graph[w][w] > frequency_dist[w]
    /\ \E w \in DOMAIN frequency_dist : co_occurance_graph[w][w] = frequency_dist[w]
    /\ \E x \in 1..Len(phrase_scores) : \E k \in 1..Len(phrase_scores[x].word_scores) :
          /\ ~BasicStopTokenIndicator(Tok(doc, phrase_scores[x].p.start + k - 1))
          /\ RatLess(Rat(1, 1), phrase_scores[x].word_scores[k])

\* C22: in generate_ranklist every token that the stop-token indicator excludes
\* receives word score 0 under each of the four scorers, for every list of
\* phrases and every mapper, also when a non-excluded token elsewhere in the
\* phrases has the same canonical key.
C22_StopTokensScoreZero ==
    Completed =>
        \A x \in 1..Len(phrase_scores) :
            \A k \in 1..Len(phrase_scores[x].word_scores) :
                BasicStopTokenIndicator(Tok(doc, phrase_scores[x].p.start + k - 1))
                    => phrase_scores[x].word_scores[k] = Zero

====
